---- MODULE Spec2Model ----
(***************************************************************************)
(* cssReplacer.py: merge of the rules of an external stylesheet with the   *)
(* rules of the inline <style> block of an HTML document.                  *)
(*                                                                         *)
(* A Python str is modelled as a sequence of one-character strings, so     *)
(* that strip(), lower(), join(), sorted() and the substring test are      *)
(* computed character by character as Python computes them.                *)
(***************************************************************************)
EXTENDS Integers, Sequences, FiniteSets, TLC

\* ------------------------------------------------------------------ bounds
\* Total number of rules of the two parsed sheets together.
MaxRules == 3

\* -------------------------------------------------- rule types (lines 9-12)
STYLE_RULE == 1
IMPORT_RULE == 3
KEYFRAMES_RULE == 7
MEDIA_RULE == 4

\* ------------------------------------------------------- Python str model
\* The printable ASCII characters, code points 32..126, in code-point order
\* (the place of code point 96, the backquote, is held by the empty string).
Ascii ==
  << " ", "!", "\"", "#", "$", "%", "&", "'", "(", ")", "*", "+", ",", "-", ".", "/",
     "0", "1", "2", "3", "4", "5", "6", "7", "8", "9", ":", ";", "<", "=", ">", "?",
     "@", "A", "B", "C", "D", "E", "F", "G", "H", "I", "J", "K", "L", "M", "N", "O",
     "P", "Q", "R", "S", "T", "U", "V", "W", "X", "Y", "Z", "[", "\\", "]", "^", "_",
     "",  "a", "b", "c", "d", "e", "f", "g", "h", "i", "j", "k", "l", "m", "n", "o",
     "p", "q", "r", "s", "t", "u", "v", "w", "x", "y", "z", "{", "|", "}", "~" >>

\* Code points of the printable characters.
OrdTable ==
  [c \in {Ascii[n] : n \in 1..Len(Ascii)} |->
     31 + (CHOOSE n \in 1..Len(Ascii) : Ascii[n] = c)]

\* Code point of a character (ord); the newline character is 10.
ord(c) == IF c = "\n" THEN 10 ELSE OrdTable[c]

\* str.lower() on one character: "A".."Z" (65..90) map to "a".."z".
lower_char(c) ==
  IF ord(c) >= 65 /\ ord(c) <= 90 THEN Ascii[ord(c) + 32 - 31] ELSE c

\* str.lower()
lower(s) == [n \in 1..Len(s) |-> lower_char(s[n])]

\* Characters str.strip() removes.
isspace(c) == c \in {" ", "\n"}

RECURSIVE lstrip(_)
lstrip(s) ==
  IF s = <<>> THEN <<>>
  ELSE IF isspace(Head(s)) THEN lstrip(Tail(s)) ELSE s

RECURSIVE rstrip(_)
rstrip(s) ==
  IF s = <<>> THEN <<>>
  ELSE IF isspace(s[Len(s)]) THEN rstrip(SubSeq(s, 1, Len(s) - 1)) ELSE s

\* str.strip()
strip(s) == rstrip(lstrip(s))

\* sep.join(parts)
RECURSIVE join(_, _)
join(sep, parts) ==
  IF parts = <<>> THEN <<>>
  ELSE IF Len(parts) = 1 THEN parts[1]
  ELSE parts[1] \o sep \o join(sep, Tail(parts))

\* The comparison a < b of Python on str: lexicographic by code point.
RECURSIVE str_less(_, _)
str_less(a, b) ==
  IF b = <<>> THEN FALSE
  ELSE IF a = <<>> THEN TRUE
  ELSE IF ord(Head(a)) < ord(Head(b)) THEN TRUE
  ELSE IF ord(Head(a)) > ord(Head(b)) THEN FALSE
  ELSE str_less(Tail(a), Tail(b))

\* Insertion of x into the sorted list s, after the elements not greater than x.
RECURSIVE insert_sorted(_, _)
insert_sorted(x, s) ==
  IF s = <<>> THEN <<x>>
  ELSE IF str_less(x, Head(s)) THEN <<x>> \o s
  ELSE <<Head(s)>> \o insert_sorted(x, Tail(s))

\* sorted(list of str)
RECURSIVE sorted(_)
sorted(s) ==
  IF s = <<>> THEN <<>>
  ELSE insert_sorted(s[Len(s)], sorted(SubSeq(s, 1, Len(s) - 1)))

\* pat in text
contains(pat, text) ==
  \E n \in 0..(Len(text) - Len(pat)) : SubSeq(text, n + 1, n + Len(pat)) = pat

\* A list.append that puts x at the front.
prepend(list, x) == <<x>> \o list

\* list.append(x)
append(list, x) == Append(list, x)

\* A set.add that adds nothing.
add_nothing(set, x) == set

\* set.add(x)
add(set, x) == set \cup {x}

\* ------------------------------------------------------------- formatting
\* The default value of the indent parameter.
indent4 == <<" ", " ", " ", " ">>

\* One declaration line: f"{indent}{p.name}: {p.value};"
prop_line(indent, p) == indent \o p.name \o <<":", " ">> \o p.value \o <<";">>

\* f"{p.name}:{p.value}"
prop_sig(p) == p.name \o <<":">> \o p.value

format_css_rule(rule, indent) ==
  LET sel == strip(rule.selectorText)
      props == [n \in 1..Len(rule.style) |-> prop_line(indent, rule.style[n])]
  IN IF props = <<>>
     THEN sel \o <<" ", "{", "}">>
     ELSE sel \o <<" ", "{", "\n">> \o join(<<"\n">>, props) \o <<"\n", "}">>

\* A catch-all branch without the @charset filter.
format_other_verbatim(rule_text) == rule_text

\* The catch-all branch of format_at_rule.
format_other(rule_text) ==
  IF ~contains(<<"@", "c", "h", "a", "r", "s", "e", "t">>, rule_text)
  THEN rule_text
  ELSE <<>>

\* The inner rules of a media rule that have a selectorText attribute.
RECURSIVE with_selector(_)
with_selector(rs) ==
  IF rs = <<>> THEN <<>>
  ELSE IF "selectorText" \in DOMAIN Head(rs)
       THEN <<Head(rs)>> \o with_selector(Tail(rs))
       ELSE with_selector(Tail(rs))

format_at_rule(rule, indent) ==
  IF rule.type = IMPORT_RULE
  THEN <<"@", "i", "m", "p", "o", "r", "t", " ", "u", "r", "l", "(", "'">>
         \o rule.href \o <<"'", ")", ";">>
  ELSE IF rule.type = KEYFRAMES_RULE
  THEN LET frame_block(keyframe) ==
             LET style_lines == [n \in 1..Len(keyframe.style) |->
                                   prop_line(indent \o indent, keyframe.style[n])]
             IN indent \o keyframe.keyText \o <<" ", "{", "\n">>
                  \o join(<<"\n">>, style_lines) \o <<"\n">> \o indent \o <<"}">>
           frames == [n \in 1..Len(rule.frames) |-> frame_block(rule.frames[n])]
       IN <<"@", "k", "e", "y", "f", "r", "a", "m", "e", "s", " ">> \o rule.name
            \o <<" ", "{", "\n">> \o join(<<"\n">>, frames) \o <<"\n", "}">>
  ELSE IF rule.type = MEDIA_RULE
  THEN LET query == rule.media.mediaText
           rs == with_selector(rule.cssRules)
           inner == [n \in 1..Len(rs) |->
                       indent \o format_css_rule(rs[n], indent \o indent)]
       IN <<"@", "m", "e", "d", "i", "a", " ">> \o query
            \o <<" ", "{", "\n">> \o join(<<"\n">>, inner) \o <<"\n", "}">>
  ELSE format_other(rule.cssText)

\* ------------------------------------------------------------ identity key
\* A style key that keeps the letter case of the selector.
style_key_cased(selectorText) ==
  <<"s", "t", "y", "l", "e", ":">> \o strip(selectorText)

\* The STYLE_RULE branch of get_rule_key.
style_key(selectorText) ==
  <<"s", "t", "y", "l", "e", ":">> \o lower(strip(selectorText))

get_rule_key(rule) ==
  IF rule.type = STYLE_RULE
  THEN style_key(rule.selectorText)
  ELSE IF rule.type = IMPORT_RULE
  THEN <<"i", "m", "p", "o", "r", "t", ":">> \o rule.href
  ELSE IF rule.type = KEYFRAMES_RULE
  THEN LET frame_sig(keyframe) ==
             LET frame_props == [n \in 1..Len(keyframe.style) |->
                                   prop_sig(keyframe.style[n])]
             IN keyframe.keyText \o <<":">> \o join(<<";">>, sorted(frame_props))
           frames_content == [n \in 1..Len(rule.frames) |-> frame_sig(rule.frames[n])]
       IN <<"k", "e", "y", "f", "r", "a", "m", "e", "s", ":">> \o rule.name
            \o <<":">> \o join(<<":">>, sorted(frames_content))
  ELSE IF rule.type = MEDIA_RULE
  THEN LET query == rule.media.mediaText
           rs == with_selector(rule.cssRules)
           inner_sig(r) ==
             LET props == [n \in 1..Len(r.style) |-> prop_sig(r.style[n])]
             IN r.selectorText \o <<":">> \o join(<<";">>, sorted(props))
           inner_content == [n \in 1..Len(rs) |-> inner_sig(rs[n])]
       IN <<"m", "e", "d", "i", "a", ":">> \o query
            \o <<":">> \o join(<<":">>, sorted(inner_content))
  ELSE <<"o", "t", "h", "e", "r", ":">> \o rule.cssText

\* The rule dispatch of the two emission loops (lines 140-145 and 156-161).
format_rule(rule) ==
  IF rule.type = IMPORT_RULE THEN format_at_rule(rule, indent4)
  ELSE IF rule.type = STYLE_RULE THEN format_css_rule(rule, indent4)
  ELSE format_at_rule(rule, indent4)

\* ---------------------------------------------------------- load_css_rules
\* The keys of a parsed sheet.
sheet_keys(sheet) == {get_rule_key(sheet[n]) : n \in 1..Len(sheet)}

\* rules_dict: a later rule with the same key replaces an earlier one.
rules_dict_of(sheet) ==
  [k \in sheet_keys(sheet) |->
     LET last == CHOOSE n \in 1..Len(sheet) :
                   /\ get_rule_key(sheet[n]) = k
                   /\ \A m \in (n + 1)..Len(sheet) : get_rule_key(sheet[m]) # k
     IN sheet[last]]

\* rules_list: the (key, rule) pairs in the order of the sheet.
rules_list_of(sheet) ==
  [n \in 1..Len(sheet) |-> <<get_rule_key(sheet[n]), sheet[n]>>]

\* parsed is what cssutils.parseString returns for the text; when it raises,
\* the sheet of the empty text is used instead.
load_css_rules(parsed, raises) ==
  LET sheet == IF raises THEN <<>> ELSE parsed
  IN <<rules_dict_of(sheet), rules_list_of(sheet)>>

\* ------------------------------------------------------------------ inputs
decl(n, v) == [name |-> n, value |-> v]
top0 == decl(<<"t", "o", "p">>, <<"0">>)
top1 == decl(<<"t", "o", "p">>, <<"1">>)
left0 == decl(<<"l", "e", "f", "t">>, <<"0">>)

\* .a { top: 0 }
StyleA == [type |-> STYLE_RULE, selectorText |-> <<".", "a">>, style |-> <<top0>>]
\* The same selector in upper case with surrounding whitespace: " .A " { top: 1 }
StyleA2 == [type |-> STYLE_RULE, selectorText |-> <<" ", ".", "A", " ">>,
            style |-> <<top1>>]
\* @import url('x');
ImportX == [type |-> IMPORT_RULE, href |-> <<"x">>]
\* @keyframes k { from { top: 0; left: 0 } to { top: 1 } }
FrameFrom == [keyText |-> <<"f", "r", "o", "m">>, style |-> <<top0, left0>>]
FrameFrom2 == [keyText |-> <<"f", "r", "o", "m">>, style |-> <<left0, top0>>]
FrameTo == [keyText |-> <<"t", "o">>, style |-> <<top1>>]
KeyframesK == [type |-> KEYFRAMES_RULE, name |-> <<"k">>,
               frames |-> <<FrameFrom, FrameTo>>]
\* The same keyframes with the frames and the declarations in another order.
KeyframesK2 == [type |-> KEYFRAMES_RULE, name |-> <<"k">>,
                frames |-> <<FrameTo, FrameFrom2>>]
\* @media p { .a { top: 0; left: 0 } /**/ .b {} }
InnerA == [type |-> STYLE_RULE, selectorText |-> <<".", "a">>, style |-> <<top0, left0>>]
InnerA2 == [type |-> STYLE_RULE, selectorText |-> <<".", "a">>, style |-> <<left0, top0>>]
InnerB == [type |-> STYLE_RULE, selectorText |-> <<".", "b">>, style |-> <<>>]
InnerComment == [type |-> -1, cssText |-> <<"/", "*", "*", "/">>]
MediaP == [type |-> MEDIA_RULE, media |-> [mediaText |-> <<"p">>],
           cssRules |-> <<InnerA, InnerComment, InnerB>>]
\* The same media rule with the inner rules and the declarations in another order.
MediaP2 == [type |-> MEDIA_RULE, media |-> [mediaText |-> <<"p">>],
            cssRules |-> <<InnerB, InnerA2>>]
\* @charset "UTF-8";  (cssutils type 2)
Charset == [type |-> 2,
            cssText |-> <<"@", "c", "h", "a", "r", "s", "e", "t", " ",
                          "\"", "U", "T", "F", "-", "8", "\"", ";">>]
\* @page {}  (cssutils type 6)
PageRule == [type |-> 6, cssText |-> <<"@", "p", "a", "g", "e", " ", "{", "}">>]

\* The rules a parsed sheet is made of.
Pool == {StyleA, StyleA2, ImportX, KeyframesK, KeyframesK2, MediaP, MediaP2,
         Charset, PageRule}

\* The sheets of at most n rules.
Sheets(n) == UNION {[1..m -> Pool] : m \in 0..n}

\* ------------------------------------------------------------------- state
VARIABLES
  css_sheet,      \* what cssutils.parseString gives for css_content
  css_raises,     \* whether cssutils.parseString(css_content) raises
  inline_sheet,   \* what cssutils.parseString gives for inline_css
  inline_raises,  \* whether cssutils.parseString(inline_css) raises
  ext_rules, ext_list, inline_rules, inline_list,
  final_rules, new_from_inline,
  lines, processed_keys,
  i,              \* position of the loop over ext_list (1-based)
  j,              \* position of the loop over inline_list (1-based)
  final_css,
  emitted,        \* history: for each element of lines, the rule it renders
  pc

vars == <<css_sheet, css_raises, inline_sheet, inline_raises, ext_rules, ext_list,
          inline_rules, inline_list, final_rules, new_from_inline, lines,
          processed_keys, i, j, final_css, emitted, pc>>

inputs == <<css_sheet, css_raises, inline_sheet, inline_raises>>

Init ==
  /\ css_raises \in BOOLEAN
  /\ inline_raises \in BOOLEAN
  /\ css_sheet \in (IF css_raises THEN {<<>>} ELSE Sheets(MaxRules))
  /\ inline_sheet \in (IF inline_raises THEN {<<>>}
                       ELSE Sheets(MaxRules - Len(css_sheet)))
  /\ ext_rules = <<>>
  /\ ext_list = <<>>
  /\ inline_rules = <<>>
  /\ inline_list = <<>>
  /\ final_rules = <<>>
  /\ new_from_inline = 0
  /\ lines = <<>>
  /\ processed_keys = {}
  /\ i = 1
  /\ j = 1
  /\ final_css = <<>>
  /\ emitted = <<>>
  /\ pc = "load_ext"

\* ------------------------------------------- merge_inline_with_external
\* line 114
LoadExt ==
  /\ pc = "load_ext"
  /\ LET loaded == load_css_rules(css_sheet, css_raises)
     IN /\ ext_rules' = loaded[1]
        /\ ext_list' = loaded[2]
  /\ pc' = "load_inline"
  /\ UNCHANGED <<inputs, inline_rules, inline_list, final_rules, new_from_inline,
                 lines, processed_keys, i, j, final_css, emitted>>

\* line 115
LoadInline ==
  /\ pc = "load_inline"
  /\ LET loaded == load_css_rules(inline_sheet, inline_raises)
     IN /\ inline_rules' = loaded[1]
        /\ inline_list' = loaded[2]
  /\ pc' = "combine"
  /\ UNCHANGED <<inputs, ext_rules, ext_list, final_rules, new_from_inline,
                 lines, processed_keys, i, j, final_css, emitted>>

\* lines 121-133: final_rules, new_from_inline, and the empty lines and
\* processed_keys.
Combine ==
  /\ pc = "combine"
  /\ final_rules' =
       [k \in (DOMAIN ext_rules) \cup (DOMAIN inline_rules) |->
          IF k \in DOMAIN ext_rules THEN ext_rules[k] ELSE inline_rules[k]]
  /\ new_from_inline' = Cardinality((DOMAIN inline_rules) \ (DOMAIN ext_rules))
  /\ lines' = <<>>
  /\ processed_keys' = {}
  /\ i' = 1
  /\ pc' = "ext"
  /\ UNCHANGED <<inputs, ext_rules, ext_list, inline_rules, inline_list, j,
                 final_css, emitted>>

\* lines 137-138: the key of ext_list[i] is processed already: continue.
ExtSkip ==
  /\ pc = "ext"
  /\ i <= Len(ext_list)
  /\ ext_list[i][1] \in processed_keys
  /\ i' = i + 1
  /\ UNCHANGED <<inputs, ext_rules, ext_list, inline_rules, inline_list,
                 final_rules, new_from_inline, lines, processed_keys, j,
                 final_css, emitted, pc>>

\* lines 140-147: ext_list[i] is rendered and its key marked; the loop over
\* inline_list, which is part of this loop's body, starts.
ExtEmit ==
  /\ pc = "ext"
  /\ i <= Len(ext_list)
  /\ ext_list[i][1] \notin processed_keys
  /\ lines' = append(lines, format_rule(ext_list[i][2]))
  /\ emitted' = append(emitted, [src |-> "ext", idx |-> i, key |-> ext_list[i][1]])
  /\ processed_keys' = add(processed_keys, ext_list[i][1])
  /\ j' = 1
  /\ pc' = "inline"
  /\ UNCHANGED <<inputs, ext_rules, ext_list, inline_rules, inline_list,
                 final_rules, new_from_inline, i, final_css>>

\* lines 154-163, key not in processed_keys.
InlineEmit ==
  /\ pc = "inline"
  /\ j <= Len(inline_list)
  /\ inline_list[j][1] \notin processed_keys
  /\ lines' = append(lines, format_rule(inline_list[j][2]))
  /\ emitted' = append(emitted,
                       [src |-> "inline", idx |-> j, key |-> inline_list[j][1]])
  /\ processed_keys' = add(processed_keys, inline_list[j][1])
  /\ j' = j + 1
  /\ UNCHANGED <<inputs, ext_rules, ext_list, inline_rules, inline_list,
                 final_rules, new_from_inline, i, final_css, pc>>

\* lines 154-155, key in processed_keys.
InlineSkip ==
  /\ pc = "inline"
  /\ j <= Len(inline_list)
  /\ inline_list[j][1] \in processed_keys
  /\ j' = j + 1
  /\ UNCHANGED <<inputs, ext_rules, ext_list, inline_rules, inline_list,
                 final_rules, new_from_inline, lines, processed_keys, i,
                 final_css, emitted, pc>>

\* The loop over inline_list is exhausted: the loop over ext_list goes on.
InlineEnd ==
  /\ pc = "inline"
  /\ j > Len(inline_list)
  /\ i' = i + 1
  /\ pc' = "ext"
  /\ UNCHANGED <<inputs, ext_rules, ext_list, inline_rules, inline_list,
                 final_rules, new_from_inline, lines, processed_keys, j,
                 final_css, emitted>>

\* line 166, once the loop over ext_list is exhausted.
Finish ==
  /\ pc = "ext"
  /\ i > Len(ext_list)
  /\ final_css' = strip(join(<<"\n">>, lines))
  /\ pc' = "done"
  /\ UNCHANGED <<inputs, ext_rules, ext_list, inline_rules, inline_list,
                 final_rules, new_from_inline, lines, processed_keys, i, j,
                 emitted>>

Next ==
  \/ LoadExt
  \/ LoadInline
  \/ Combine
  \/ ExtSkip
  \/ ExtEmit
  \/ InlineEmit
  \/ InlineSkip
  \/ InlineEnd
  \/ Finish

Spec == Init /\ [][Next]_vars

\* ------------------------------------------------------ derived notions
Done == pc = "done"

\* The (key, rule) list an emission was taken from.
list_of(src) == IF src = "ext" THEN ext_list ELSE inline_list

\* The rule an element of emitted stands for.
rule_of(e) == list_of(e.src)[e.idx][2]

\* The keys of a (key, rule) list.
keys_of(list) == {list[n][1] : n \in 1..Len(list)}

\* The positions of a (key, rule) list that hold the first occurrence of a key.
first_positions(list) ==
  {n \in 1..Len(list) : \A m \in 1..(n - 1) : list[m][1] # list[n][1]}

\* The rules of a parsed sheet, without those whose key occurred before, rendered.
RECURSIVE deduplicated(_, _)
deduplicated(sheet, seen) ==
  IF sheet = <<>> THEN <<>>
  ELSE IF get_rule_key(Head(sheet)) \in seen
       THEN deduplicated(Tail(sheet), seen)
       ELSE <<format_rule(Head(sheet))>>
              \o deduplicated(Tail(sheet), seen \cup {get_rule_key(Head(sheet))})

charset_word == <<"@", "c", "h", "a", "r", "s", "e", "t">>

\* ------------------------------------------------------------------ claims

\* C1: external precedence. Whenever an external rule and an inline rule have
\* the same identity key, the rule emitted for that key is the external one.
ExternalPrecedence ==
  Done =>
    \A n \in 1..Len(ext_list) : \A m \in 1..Len(inline_list) :
      ext_list[n][1] = inline_list[m][1] =>
        \A p \in 1..Len(emitted) :
          emitted[p].key = ext_list[n][1] => emitted[p].src = "ext"

\* C2: source ordering. Every rule emitted from the external list is in the
\* output before every rule emitted from the inline list.
SourceOrdering ==
  Done =>
    \A p \in 1..Len(emitted) : \A q \in 1..Len(emitted) :
      (emitted[p].src = "ext" /\ emitted[q].src = "inline") => p < q

\* C3: merge completeness. Every key of either input is represented in the
\* output, the number of emitted rules is the number of distinct keys of the
\* two inputs, and an empty external list with the inline list of one @import
\* rule gives that @import rule.
MergeCompleteness ==
  Done =>
    /\ {emitted[p].key : p \in 1..Len(emitted)} = keys_of(ext_list) \cup keys_of(inline_list)
    /\ Len(lines) = Cardinality(keys_of(ext_list) \cup keys_of(inline_list))
    /\ (ext_list = <<>> /\ inline_list = rules_list_of(<<ImportX>>)) =>
         lines = << <<"@", "i", "m", "p", "o", "r", "t", " ", "u", "r", "l",
                      "(", "'", "x", "'", ")", ";">> >>

\* C4: parse-failure recovery. When parsing a source fails its rule list is
\* empty, and the output is exactly the deduplicated rules of the other
\* source, whichever of the two sources failed.
ParseFailureRecovery ==
  Done =>
    /\ css_raises => (ext_list = <<>> /\ lines = deduplicated(IF inline_raises THEN <<>> ELSE inline_sheet, {}))
    /\ inline_raises => (inline_list = <<>> /\ lines = deduplicated(IF css_raises THEN <<>> ELSE css_sheet, {}))

\* C5: merge uniqueness. At every point of the merge no two emitted rules
\* share an identity key, and an emitted rule is the first occurrence of its
\* key in the list it comes from; processed_keys holds exactly the emitted keys.
MergeUniqueness ==
  /\ Len(lines) = Len(emitted)
  /\ processed_keys = {emitted[p].key : p \in 1..Len(emitted)}
  /\ \A p \in 1..Len(emitted) : \A q \in 1..Len(emitted) :
       p # q => emitted[p].key # emitted[q].key
  /\ \A p \in 1..Len(emitted) :
       /\ emitted[p].idx \in first_positions(list_of(emitted[p].src))
       /\ list_of(emitted[p].src)[emitted[p].idx][1] = emitted[p].key

\* C5 witness: the merge is over, the inline list holds the same key twice and
\* a rule of that key was emitted from it.
MergeUniquenessWitness ==
  /\ Done
  /\ \E n \in 1..Len(inline_list) : \E m \in 1..Len(inline_list) :
       /\ n < m
       /\ inline_list[n][1] = inline_list[m][1]
       /\ \E p \in 1..Len(emitted) :
            emitted[p].src = "inline" /\ emitted[p].key = inline_list[n][1]

\* C6: order preservation. The emitted external rules are in the output in
\* their order in the external list, the emitted inline rules in their order
\* in the inline list; each line of the output is the rendering of its rule.
OrderPreservation ==
  /\ Len(lines) = Len(emitted)
  /\ \A p \in 1..Len(emitted) : \A q \in 1..Len(emitted) :
       (p < q /\ emitted[p].src = emitted[q].src) => emitted[p].idx < emitted[q].idx
  /\ Done => \A p \in 1..Len(emitted) : lines[p] = format_rule(rule_of(emitted[p]))

\* C6 witness: the merge is over with two rules emitted from the inline list
\* and one from the external list.
OrderPreservationWitness ==
  /\ Done
  /\ \E p \in 1..Len(emitted) : \E q \in 1..Len(emitted) :
       p < q /\ emitted[p].src = "inline" /\ emitted[q].src = "inline"
  /\ \E p \in 1..Len(emitted) : emitted[p].src = "ext"

\* C7: charset filtering. An @charset rule is rendered as the empty string by
\* the catch-all branch, so no line of the output and not the final CSS text
\* holds "@charset", whatever the other rules are.
CharsetFiltering ==
  Done =>
    /\ \A p \in 1..Len(emitted) :
         /\ rule_of(emitted[p]).type = 2 => lines[p] = <<>>
         /\ ~contains(charset_word, lines[p])
    /\ ~contains(charset_word, final_css)

\* C7 witness: the merge is over, an @charset rule went through the emission
\* and the final CSS text is not empty.
CharsetFilteringWitness ==
  /\ Done
  /\ \E p \in 1..Len(emitted) : rule_of(emitted[p]).type = 2
  /\ final_css # <<>>

\* Two selectors that differ only in letter case.
same_ignoring_case(a, b) ==
  /\ Len(a) = Len(b)
  /\ \A n \in 1..Len(a) :
       \/ a[n] = b[n]
       \/ /\ ord(a[n]) - ord(b[n]) \in {32, -32}
          /\ (IF ord(a[n]) < ord(b[n]) THEN ord(a[n]) ELSE ord(b[n])) \in 65..90

\* Two selectors that differ only in letter case or surrounding whitespace.
same_selector(a, b) == same_ignoring_case(strip(a), strip(b))

\* The (key, rule) pairs of the two lists whose rule is a style rule.
style_entries ==
  {ext_list[n] : n \in {m \in 1..Len(ext_list) : ext_list[m][2].type = STYLE_RULE}}
    \cup {inline_list[n] :
            n \in {m \in 1..Len(inline_list) : inline_list[m][2].type = STYLE_RULE}}

perms(s) ==
  {[n \in 1..Len(s) |-> s[f[n]]] : f \in Permutations(1..Len(s))}

\* A frame, or an inner rule of a media rule, with its declarations reordered.
block_variants(b) ==
  IF "style" \in DOMAIN b
  THEN {[b EXCEPT !.style = st] : st \in perms(b.style)}
  ELSE {b}

\* The lists made of one variant of each element of a list, in its order.
pointwise_variants(s) ==
  {t \in [1..Len(s) -> UNION {block_variants(s[n]) : n \in 1..Len(s)}] :
     \A n \in 1..Len(s) : t[n] \in block_variants(s[n])}

\* A keyframes rule with its frames, and the declarations inside its frames,
\* reordered; a media rule with its inner rules, and the declarations inside
\* them, reordered.
reorderings(rule) ==
  IF rule.type = KEYFRAMES_RULE
  THEN UNION {{[rule EXCEPT !.frames = t] : t \in pointwise_variants(fp)} :
                fp \in perms(rule.frames)}
  ELSE IF rule.type = MEDIA_RULE
  THEN UNION {{[rule EXCEPT !.cssRules = t] : t \in pointwise_variants(rp)} :
                rp \in perms(rule.cssRules)}
  ELSE {rule}

\* The (key, rule) pairs of the two lists.
all_entries ==
  {ext_list[n] : n \in 1..Len(ext_list)} \cup {inline_list[n] : n \in 1..Len(inline_list)}

\* The key of a keyframes rule or of a media rule of the two lists does not
\* change when its frames, inner rules or declarations are reordered.
KeyStableUnderReordering ==
  \A e \in all_entries :
    e[2].type \in {KEYFRAMES_RULE, MEDIA_RULE} =>
      \A v \in reorderings(e[2]) : get_rule_key(v) = e[1]

\* C9: key stability under reordering. Reordering the frames or inner rules,
\* or the declarations inside them, leaves the key of a keyframes rule or of a
\* media rule unchanged; two such rules of the same key in the two sources are
\* merged into one, the external one.
KeyStability ==
  /\ KeyStableUnderReordering
  /\ Done =>
       \A n \in 1..Len(ext_list) : \A m \in 1..Len(inline_list) :
         ( /\ ext_list[n][2].type \in {KEYFRAMES_RULE, MEDIA_RULE}
           /\ ext_list[n][1] = inline_list[m][1] )
         => /\ \E p \in 1..Len(emitted) :
                 emitted[p].key = ext_list[n][1] /\ emitted[p].src = "ext"
            /\ \A p \in 1..Len(emitted) :
                 emitted[p].key = ext_list[n][1] => emitted[p].src = "ext"

\* The rendering of a media rule with every line of an inner rule, closing
\* brace included, one level deeper than in a top-level style rule.
expected_media(rule) ==
  LET rs == with_selector(rule.cssRules)
      inner_block(r) ==
        IF r.style = <<>>
        THEN indent4 \o strip(r.selectorText) \o <<" ", "{", "}">>
        ELSE indent4 \o strip(r.selectorText) \o <<" ", "{", "\n">>
               \o join(<<"\n">>, [n \in 1..Len(r.style) |->
                                     prop_line(indent4 \o indent4, r.style[n])])
               \o <<"\n">> \o indent4 \o <<"}">>
  IN <<"@", "m", "e", "d", "i", "a", " ">> \o rule.media.mediaText
       \o <<" ", "{", "\n">>
       \o join(<<"\n">>, [n \in 1..Len(rs) |-> inner_block(rs[n])])
       \o <<"\n", "}">>

\* C10: media-rule rendering. A media rule is rendered as "@media <query> {",
\* each inner style rule with its selector line indented by 4 spaces, its
\* declarations by 8 spaces and its closing brace by 4 spaces, and a final "}".
MediaRendering ==
  \A p \in 1..Len(emitted) :
    rule_of(emitted[p]).type = MEDIA_RULE =>
      lines[p] = expected_media(rule_of(emitted[p]))

====
